---- MODULE Spec2Model ----
(***************************************************************************)
(* The ant world of bugworld-proto (src/src/world.rs), its instruction set *)
(* (src/src/asm.rs) and its simulator (src/src/sim.rs) as a state machine. *)
(*                                                                         *)
(* A run has two parts, as the ownership of the World dictates.  While the *)
(* caller owns the World (pc = "setup") it places ants with add_ant and    *)
(* may drive any ant through its AntMut handle.  Simulator::new then takes *)
(* the World by value, and from there on only Simulator::step changes it.  *)
(* step() is modelled loop iteration by loop iteration, so that the order  *)
(* in which the ants run inside one tick is visible.                       *)
(*                                                                         *)
(* Ant ids and instruction indices are 0-based as in the source; the TLA+  *)
(* sequences that hold them are 1-based, hence ants[id + 1] and            *)
(* program[instr_pointer + 1].                                             *)
(***************************************************************************)
EXTENDS Integers, Sequences, FiniteSets, TLC

VARIABLES
    grid,          \* World.grid.cells: position -> Cell
    ants,          \* World.ants: Vec<AntData>
    swarms,        \* World.swarms: Color -> Vec<AntId>
    pc,            \* where the program is: "setup", "idle", "brains", "panicked"
    last,          \* the last World / AntMut call made by the caller and its result
    calls,         \* number of add_ant, AntMut and step() calls made by the caller so far
    interpreters,  \* Simulator.interpreters: Vec<Interpreter>
    it,            \* Simulator::step: 1-based index of the interpreter being run
    queue,         \* Interpreter::step_brains: the part of ant_ids not yet visited
    trace,         \* the instructions evaluated so far in the current step()
    renders,       \* number of Renderer::render calls of the current step()
    ticks,         \* number of step() calls that have returned
    start          \* the World as Simulator::new received it

vars == <<grid, ants, swarms, pc, last, calls, interpreters, it, queue, trace, renders,
          ticks, start>>

---------------------------------------------------------------------------
(* Bounds of the exploration. *)

\* the caller makes at most this many calls in all: add_ant and AntMut calls
\* while it owns the World, step() calls once the Simulator does
MaxCalls == 4

---------------------------------------------------------------------------
(* Geometry: Direction and Position. *)

Directions == {"Right", "DownRight", "DownLeft", "Left", "UpLeft", "UpRight"}

Colors == {"Black", "Red"}

\* impl Into<u32> for Direction
DirToU32(d) ==
    CASE d = "Right" -> 0
      [] d = "DownRight" -> 1
      [] d = "DownLeft" -> 2
      [] d = "Left" -> 3
      [] d = "UpLeft" -> 4
      [] d = "UpRight" -> 5

\* impl TryFrom<u32> for Direction; "Err" stands for Err(())
U32ToDir(v) ==
    CASE v = 0 -> "Right"
      [] v = 1 -> "DownRight"
      [] v = 2 -> "DownLeft"
      [] v = 3 -> "Left"
      [] v = 4 -> "UpLeft"
      [] v = 5 -> "UpRight"
      [] OTHER -> "Err"

\* Direction::default()
DefaultDirection == "Right"

Pos(px, py) == [x |-> px, y |-> py]

\* i32::MAX and i32::MIN, the limits of Position.x and Position.y
I32Max == 2147483647
I32Min == -I32Max - 1

\* a + 1 and a - 1 on an i32 as a build without overflow checks computes them
I32Inc(a) == IF a = I32Max THEN I32Min ELSE a + 1
I32Dec(a) == IF a = I32Min THEN I32Max ELSE a - 1

\* Position::translate stepping two cells to the right
translate_right_two(p, d) ==
    CASE d = "Right" -> Pos(p.x + 2, p.y)
      [] d = "DownRight" -> Pos(p.x, I32Inc(p.y))
      [] d = "DownLeft" -> Pos(I32Dec(p.x), I32Inc(p.y))
      [] d = "Left" -> Pos(I32Dec(p.x), p.y)
      [] d = "UpLeft" -> Pos(p.x, I32Dec(p.y))
      [] d = "UpRight" -> Pos(I32Inc(p.x), I32Dec(p.y))

\* Position::translate, in a build without overflow checks
translate(p, d) ==
    CASE d = "Right" -> Pos(I32Inc(p.x), p.y)
      [] d = "DownRight" -> Pos(p.x, I32Inc(p.y))
      [] d = "DownLeft" -> Pos(I32Dec(p.x), I32Inc(p.y))
      [] d = "Left" -> Pos(I32Dec(p.x), p.y)
      [] d = "UpLeft" -> Pos(p.x, I32Dec(p.y))
      [] d = "UpRight" -> Pos(I32Inc(p.x), I32Dec(p.y))

\* Position::translate in a build with overflow checks panics on these inputs
translate_overflows(p, d) ==
    \/ d \in {"Right", "UpRight"} /\ p.x = I32Max
    \/ d \in {"Left", "DownLeft"} /\ p.x = I32Min
    \/ d \in {"DownRight", "DownLeft"} /\ p.y = I32Max
    \/ d \in {"UpLeft", "UpRight"} /\ p.y = I32Min

---------------------------------------------------------------------------
(* Cell.                                                                   *)
(*                                                                         *)
(* Option<AntId> is a set: {} is None and {id} is Some(id).                *)
(*                                                                         *)
(* food is a u32.  TLC's integers are 32-bit signed, so a count c is held  *)
(* as the i32 with the same 32 bits: c itself below 2^31, and c - 2^32     *)
(* from 2^31 on.  u32::MAX is then -1, adding one to it gives 0 exactly as *)
(* the wrapping addition of a build without overflow checks does, and      *)
(* "food > 0" on the u32 is "food # 0" on its representation.              *)
(***************************************************************************)

\* u32::MAX in the representation above
U32Max == -1

\* *food_ref > 0 on a u32
U32Positive(f) == f # 0

\* Cell::Wall.  A wall has no fields; the two below are fixed and never read.
Wall == [kind |-> "Wall", ant_id |-> {}, food |-> 0]

\* Cell::FreeCell { ant_id, food }
FreeCell(a, f) == [kind |-> "FreeCell", ant_id |-> a, food |-> f]

\* impl Default for Cell
DefaultCell == FreeCell({}, 0)

\* Cell::clear_ant leaving the occupant in place
clear_ant_keep(cell) == cell

\* Cell::clear_ant (the returned old occupant is not used by any caller in src)
clear_ant(cell) ==
    IF cell.kind = "FreeCell" THEN [cell EXCEPT !.ant_id = {}] ELSE cell

\* Cell::try_put_ant without its Wall arm
try_put_ant_on_wall(cell, id) ==
    IF cell.ant_id # {} THEN [cell |-> cell, res |-> "Occupied"]
    ELSE [cell |-> [cell EXCEPT !.ant_id = {id}], res |-> "Ok"]

\* Cell::try_put_ant without its Occupied arm
try_put_ant_skip_check(cell, id) ==
    IF cell.kind = "Wall" THEN [cell |-> cell, res |-> "Wall"]
    ELSE [cell |-> [cell EXCEPT !.ant_id = {id}], res |-> "Ok"]

\* Cell::try_put_ant
try_put_ant(cell, id) ==
    IF cell.kind = "Wall" THEN [cell |-> cell, res |-> "Wall"]
    ELSE IF cell.ant_id # {} THEN [cell |-> cell, res |-> "Occupied"]
    ELSE [cell |-> [cell EXCEPT !.ant_id = {id}], res |-> "Ok"]

\* Cell::ant
cell_ant(cell) == IF cell.kind = "FreeCell" THEN cell.ant_id ELSE {}

\* Cell::food
cell_food(cell) == IF cell.kind = "FreeCell" THEN cell.food ELSE 0

\* Cell::try_pickup_food leaving the food count as it is
try_pickup_food_keep(cell) ==
    IF cell.kind = "Wall" THEN [cell |-> cell, res |-> "Wall"]
    ELSE IF U32Positive(cell.food) THEN [cell |-> cell, res |-> "Ok"]
    ELSE [cell |-> cell, res |-> "NoFood"]

\* Cell::try_pickup_food
try_pickup_food(cell) ==
    IF cell.kind = "Wall" THEN [cell |-> cell, res |-> "Wall"]
    ELSE IF U32Positive(cell.food)
         THEN [cell |-> [cell EXCEPT !.food = @ - 1], res |-> "Ok"]
         ELSE [cell |-> cell, res |-> "NoFood"]

\* Cell::try_drop_food.  *food_ref += 1 on u32::MAX panics in a build with
\* overflow checks (checks = TRUE) and wraps to 0 in a build without.
try_drop_food(cell, checks) ==
    IF cell.kind = "Wall" THEN [cell |-> cell, res |-> "Wall"]
    ELSE IF cell.food = U32Max /\ checks THEN [cell |-> cell, res |-> "Panic"]
    ELSE [cell |-> [cell EXCEPT !.food = @ + 1], res |-> "Ok"]

\* Cell::free_to_move not looking at the occupant
free_to_move_ignore_ant(cell) == cell.kind = "FreeCell"

\* Cell::free_to_move
free_to_move(cell) == cell.kind = "FreeCell" /\ cell.ant_id = {}

\* impl From<CellError> for WorldError with two arms exchanged
WorldErrorFrom_swapped(e) ==
    CASE e = "Wall" -> "Occupied"
      [] e = "Occupied" -> "Wall"
      [] e = "NoFood" -> "CellHasNoFood"

\* impl From<CellError> for WorldError
WorldErrorFrom(e) ==
    CASE e = "Wall" -> "Wall"
      [] e = "Occupied" -> "Occupied"
      [] e = "NoFood" -> "CellHasNoFood"

---------------------------------------------------------------------------
(* Grid. *)

\* the grid under study is Grid::new(Width, Height)
Width == 3
Height == 2

Cells == {Pos(px, py) : px \in 0 .. Width - 1, py \in 0 .. Height - 1}

\* Grid::new
Grid_new == [p \in Cells |-> DefaultCell]

\* Grid::in_bounds with <= for <
in_bounds_inclusive(p) == p.y >= 0 /\ p.x >= 0 /\ p.y <= Height /\ p.x <= Width

\* Grid::in_bounds
in_bounds(p) == p.y >= 0 /\ p.x >= 0 /\ p.y < Height /\ p.x < Width

\* Grid::cell_at and Grid::cell_at_mut: <<>> is None, <<cell>> is Some(cell)
cell_at(g, p) == IF ~in_bounds(p) THEN <<>> ELSE <<g[p]>>

\* Grid::ant_at
ant_at(g, p) == IF cell_at(g, p) = <<>> THEN {} ELSE cell_ant(cell_at(g, p)[1])

---------------------------------------------------------------------------
(* AntData and the AntMut handle.  A handle operation takes the grid and   *)
(* the ant's record and gives back both with its result; res = "Panic" is  *)
(* a failed unwrap or an arithmetic overflow.                              *)

\* AntData::new
AntData_new(color, position) ==
    [color |-> color, position |-> position, direction |-> DefaultDirection,
     instr_pointer |-> 0, carries_food |-> FALSE]

\* AntMut::move_forward clearing the occupant of every cell but the new one
move_forward_clear_all(g, data, id) ==
    LET new_position == translate(data.position, data.direction)
        new_cell == cell_at(g, new_position)
    IN  IF new_cell = <<>> THEN [grid |-> g, data |-> data, res |-> "OutOfBounds"]
        ELSE LET put == try_put_ant(new_cell[1], id)
             IN  IF put.res # "Ok"
                 THEN [grid |-> g, data |-> data, res |-> WorldErrorFrom(put.res)]
                 ELSE [grid |-> [p \in Cells |->
                                    IF p = new_position THEN put.cell ELSE clear_ant(g[p])],
                       data |-> [data EXCEPT !.position = new_position],
                       res |-> "Ok"]

\* AntMut::move_forward without old_cell.clear_ant()
move_forward_keep_old(g, data, id) ==
    LET new_position == translate(data.position, data.direction)
        new_cell == cell_at(g, new_position)
    IN  IF new_cell = <<>> THEN [grid |-> g, data |-> data, res |-> "OutOfBounds"]
        ELSE LET put == try_put_ant(new_cell[1], id)
             IN  IF put.res # "Ok"
                 THEN [grid |-> g, data |-> data, res |-> WorldErrorFrom(put.res)]
                 ELSE [grid |-> [g EXCEPT ![new_position] = put.cell],
                       data |-> [data EXCEPT !.position = new_position],
                       res |-> "Ok"]

\* AntMut::move_forward
move_forward(g, data, id) ==
    LET new_position == translate(data.position, data.direction)
        new_cell == cell_at(g, new_position)
    IN  IF new_cell = <<>> THEN [grid |-> g, data |-> data, res |-> "OutOfBounds"]
        ELSE LET put == try_put_ant(new_cell[1], id)
             IN  IF put.res # "Ok"
                 THEN [grid |-> g, data |-> data, res |-> WorldErrorFrom(put.res)]
                 ELSE LET g1 == [g EXCEPT ![new_position] = put.cell]
                          old_cell == cell_at(g1, data.position)
                      IN  IF old_cell = <<>>
                          THEN [grid |-> g1, data |-> data, res |-> "Panic"]
                          ELSE [grid |-> [g1 EXCEPT ![data.position] = clear_ant(old_cell[1])],
                                data |-> [data EXCEPT !.position = new_position],
                                res |-> "Ok"]

\* AntMut::rotate
rotate(data, direction) == [data EXCEPT !.direction = direction]

\* AntMut::pickup_food asking the cell before the ant
pickup_food_cell_first(g, data) ==
    LET cell == cell_at(g, data.position)
    IN  IF cell = <<>> THEN [grid |-> g, data |-> data, res |-> "Panic"]
        ELSE LET pick == try_pickup_food(cell[1])
             IN  IF pick.res # "Ok"
                 THEN [grid |-> g, data |-> data, res |-> WorldErrorFrom(pick.res)]
                 ELSE IF data.carries_food
                      THEN [grid |-> [g EXCEPT ![data.position] = pick.cell],
                            data |-> data, res |-> "AntCarriesFood"]
                      ELSE [grid |-> [g EXCEPT ![data.position] = pick.cell],
                            data |-> [data EXCEPT !.carries_food = TRUE],
                            res |-> "Ok"]

\* AntMut::pickup_food
pickup_food(g, data) ==
    LET cell == cell_at(g, data.position)
    IN  IF cell = <<>> THEN [grid |-> g, data |-> data, res |-> "Panic"]
        ELSE IF data.carries_food
             THEN [grid |-> g, data |-> data, res |-> "AntCarriesFood"]
             ELSE LET pick == try_pickup_food(cell[1])
                  IN  IF pick.res # "Ok"
                      THEN [grid |-> g, data |-> data, res |-> WorldErrorFrom(pick.res)]
                      ELSE [grid |-> [g EXCEPT ![data.position] = pick.cell],
                            data |-> [data EXCEPT !.carries_food = TRUE],
                            res |-> "Ok"]

\* AntMut::drop_food
drop_food(g, data, checks) ==
    IF ~data.carries_food THEN [grid |-> g, data |-> data, res |-> "AntHasNoFood"]
    ELSE LET data1 == [data EXCEPT !.carries_food = FALSE]
             cell == cell_at(g, data.position)
         IN  IF cell = <<>> THEN [grid |-> g, data |-> data1, res |-> "Panic"]
             ELSE LET drop == try_drop_food(cell[1], checks)
                  IN  IF drop.res # "Ok"
                      THEN [grid |-> g, data |-> data1, res |-> "Panic"]
                      ELSE [grid |-> [g EXCEPT ![data.position] = drop.cell],
                            data |-> data1, res |-> "Ok"]

\* AntMut::update_instr_pointer writing the pointer after the one given
update_instr_pointer_next(data, new_pointer) ==
    [data EXCEPT !.instr_pointer = new_pointer + 1]

\* AntMut::update_instr_pointer
update_instr_pointer(data, new_pointer) == [data EXCEPT !.instr_pointer = new_pointer]

---------------------------------------------------------------------------
(* World. *)

\* World::new
World_swarms_new == [c \in Colors |-> <<>>]

\* World::swarm_ids yielding the newest ant first
swarm_ids_reversed(sw, color) ==
    [i \in 1 .. Len(sw[color]) |-> sw[color][Len(sw[color]) + 1 - i]]

\* World::swarm_ids
swarm_ids(sw, color) == sw[color]

\* World::add_ant entering the ant in the swarm of the other color
add_ant_other_swarm(as, sw, g, color, position) ==
    LET id == Len(as)
        cell == cell_at(g, position)
        other == CHOOSE c \in Colors : c # color
    IN  IF cell = <<>>
        THEN [ants |-> as, swarms |-> sw, grid |-> g, res |-> "OutOfBounds", id |-> id]
        ELSE LET put == try_put_ant(cell[1], id)
             IN  IF put.res # "Ok"
                 THEN [ants |-> as, swarms |-> sw, grid |-> g,
                       res |-> WorldErrorFrom(put.res), id |-> id]
                 ELSE [ants |-> Append(as, AntData_new(color, position)),
                       swarms |-> [sw EXCEPT ![other] = Append(@, id)],
                       grid |-> [g EXCEPT ![position] = put.cell],
                       res |-> "Ok", id |-> id]

\* World::add_ant pushing the ant before the cell has accepted it
add_ant_push_first(as, sw, g, color, position) ==
    LET id == Len(as)
        cell == cell_at(g, position)
        pushed == Append(as, AntData_new(color, position))
    IN  IF cell = <<>>
        THEN [ants |-> pushed, swarms |-> sw, grid |-> g, res |-> "OutOfBounds", id |-> id]
        ELSE LET put == try_put_ant(cell[1], id)
             IN  IF put.res # "Ok"
                 THEN [ants |-> pushed, swarms |-> sw, grid |-> g,
                       res |-> WorldErrorFrom(put.res), id |-> id]
                 ELSE [ants |-> pushed,
                       swarms |-> [sw EXCEPT ![color] = Append(@, id)],
                       grid |-> [g EXCEPT ![position] = put.cell],
                       res |-> "Ok", id |-> id]

\* World::add_ant taking the id after the push
add_ant_id_after_push(as, sw, g, color, position) ==
    LET id == Len(as) + 1
        cell == cell_at(g, position)
    IN  IF cell = <<>>
        THEN [ants |-> as, swarms |-> sw, grid |-> g, res |-> "OutOfBounds", id |-> id]
        ELSE LET put == try_put_ant(cell[1], id)
             IN  IF put.res # "Ok"
                 THEN [ants |-> as, swarms |-> sw, grid |-> g,
                       res |-> WorldErrorFrom(put.res), id |-> id]
                 ELSE [ants |-> Append(as, AntData_new(color, position)),
                       swarms |-> [sw EXCEPT ![color] = Append(@, id)],
                       grid |-> [g EXCEPT ![position] = put.cell],
                       res |-> "Ok", id |-> id]

\* World::add_ant
add_ant(as, sw, g, color, position) ==
    LET id == Len(as)
        cell == cell_at(g, position)
    IN  IF cell = <<>>
        THEN [ants |-> as, swarms |-> sw, grid |-> g, res |-> "OutOfBounds", id |-> id]
        ELSE LET put == try_put_ant(cell[1], id)
             IN  IF put.res # "Ok"
                 THEN [ants |-> as, swarms |-> sw, grid |-> g,
                       res |-> WorldErrorFrom(put.res), id |-> id]
                 ELSE [ants |-> Append(as, AntData_new(color, position)),
                       swarms |-> [sw EXCEPT ![color] = Append(@, id)],
                       grid |-> [g EXCEPT ![position] = put.cell],
                       res |-> "Ok", id |-> id]

\* World::ant_ids
ant_ids(as) == 0 .. Len(as) - 1


---------------------------------------------------------------------------
(* The instruction set (asm.rs). *)

TurnDirections == {"Left", "Right"}

\* TurnDirection::apply_to with a left turn of two steps
apply_to_left_twice(turn, direction) ==
    LET d == IF turn = "Left" THEN -2 ELSE 1
    IN  U32ToDir((DirToU32(direction) + d + 6) % 6)

\* TurnDirection::apply_to
apply_to(turn, direction) ==
    LET d == IF turn = "Left" THEN -1 ELSE 1
    IN  U32ToDir((DirToU32(direction) + d + 6) % 6)

\* enum Instr
Turn(direction, next_instr) ==
    [op |-> "Turn", direction |-> direction, next_instr |-> next_instr]

Move(success_instr, fail_instr) ==
    [op |-> "Move", success_instr |-> success_instr, fail_instr |-> fail_instr]

Direction(direction, success_instr, fail_instr) ==
    [op |-> "Direction", direction |-> direction,
     success_instr |-> success_instr, fail_instr |-> fail_instr]

PickUpFood(success_instr, fail_instr) ==
    [op |-> "PickUpFood", success_instr |-> success_instr, fail_instr |-> fail_instr]

DropFoodInstr(next_instr) == [op |-> "DropFood", next_instr |-> next_instr]

\* World::can_move: the cell ahead is in bounds, not a wall and not occupied
can_move(as, g, ant_id) ==
    LET data == as[ant_id + 1]
        cell == cell_at(g, translate(data.position, data.direction))
    IN  cell # <<>> /\ free_to_move(cell[1])

\* World::can_pickup_food: the ant carries nothing and its cell has food
can_pickup_food(as, g, ant_id) ==
    LET data == as[ant_id + 1]
    IN  ~data.carries_food /\ U32Positive(cell_food(g[data.position]))

\* World::can_drop_food: the ant carries food
can_drop_food(as, g, ant_id) == as[ant_id + 1].carries_food

\* enum Action
NoAction == <<>>
SomeAction(a) == <<a>>

\* Instr::eval with the two branches of its Direction arm exchanged
Instr_eval_direction_swapped(instr, as, g, ant_id) ==
    CASE instr.op = "Turn" ->
            [action |-> SomeAction([kind |-> "Rotate",
                                    direction |-> apply_to(instr.direction,
                                                           as[ant_id + 1].direction)]),
             next |-> instr.next_instr]
      [] instr.op = "Move" ->
            IF can_move(as, g, ant_id)
            THEN [action |-> SomeAction([kind |-> "Move"]), next |-> instr.success_instr]
            ELSE [action |-> NoAction, next |-> instr.fail_instr]
      [] instr.op = "Direction" ->
            [action |-> NoAction,
             next |-> IF as[ant_id + 1].direction = instr.direction
                      THEN instr.fail_instr ELSE instr.success_instr]
      [] instr.op = "PickUpFood" ->
            IF can_pickup_food(as, g, ant_id)
            THEN [action |-> SomeAction([kind |-> "PickUpFood"]), next |-> instr.success_instr]
            ELSE [action |-> NoAction, next |-> instr.fail_instr]
      [] instr.op = "DropFood" ->
            IF can_drop_food(as, g, ant_id)
            THEN [action |-> SomeAction([kind |-> "DropFood"]), next |-> instr.next_instr]
            ELSE [action |-> NoAction, next |-> instr.next_instr]

\* Instr::eval: (Option<Action>, InstrIdx)
Instr_eval(instr, as, g, ant_id) ==
    CASE instr.op = "Turn" ->
            [action |-> SomeAction([kind |-> "Rotate",
                                    direction |-> apply_to(instr.direction,
                                                           as[ant_id + 1].direction)]),
             next |-> instr.next_instr]
      [] instr.op = "Move" ->
            IF can_move(as, g, ant_id)
            THEN [action |-> SomeAction([kind |-> "Move"]), next |-> instr.success_instr]
            ELSE [action |-> NoAction, next |-> instr.fail_instr]
      [] instr.op = "Direction" ->
            [action |-> NoAction,
             next |-> IF as[ant_id + 1].direction = instr.direction
                      THEN instr.success_instr ELSE instr.fail_instr]
      [] instr.op = "PickUpFood" ->
            IF can_pickup_food(as, g, ant_id)
            THEN [action |-> SomeAction([kind |-> "PickUpFood"]), next |-> instr.success_instr]
            ELSE [action |-> NoAction, next |-> instr.fail_instr]
      [] instr.op = "DropFood" ->
            IF can_drop_food(as, g, ant_id)
            THEN [action |-> SomeAction([kind |-> "DropFood"]), next |-> instr.next_instr]
            ELSE [action |-> NoAction, next |-> instr.next_instr]

\* The Action an instruction chose, carried out through the ant's handle.
perform(action, g, data, id, checks) ==
    IF action = NoAction THEN [grid |-> g, data |-> data, res |-> "Ok"]
    ELSE CASE action[1].kind = "Move" -> move_forward(g, data, id)
           [] action[1].kind = "Rotate" ->
                [grid |-> g, data |-> rotate(data, action[1].direction), res |-> "Ok"]
           [] action[1].kind = "PickUpFood" -> pickup_food(g, data)
           [] action[1].kind = "DropFood" -> drop_food(g, data, checks)

---------------------------------------------------------------------------
(* The inputs: the grids handed to World::new (Grid::new followed by cells *)
(* overwritten through cell_at_mut, as the tests of world.rs build        *)
(* theirs), the positions add_ant is called with, and the program maps     *)
(* handed to Simulator::new.                                               *)

BuildGrid(walls, food) ==
    [p \in Cells |->
        IF p \in walls THEN Wall
        ELSE IF p \in DOMAIN food THEN FreeCell({}, food[p])
        ELSE DefaultCell]

GridInputs ==
    { Grid_new,
      BuildGrid({Pos(1, 0)}, [p \in {Pos(0, 0)} |-> 2]),
      BuildGrid({}, [p \in {Pos(0, 0), Pos(1, 0)} |-> IF p = Pos(0, 0) THEN 1 ELSE U32Max]) }

\* the top row of the grid, the positions just left and right of it, and one
\* position above and one below the grid
PositionInputs == {Pos(px, 0) : px \in -1 .. Width} \cup {Pos(0, -1), Pos(0, Height)}

\* the pointers update_instr_pointer is called with
PointerInputs == 0 .. 1

MoveLoop == <<Move(0, 0)>>

FoodLoop == <<PickUpFood(1, 0), DropFoodInstr(0)>>

Patrol == <<Move(0, 1), Turn("Right", 2), Direction("Left", 0, 1)>>

Forage == <<PickUpFood(1, 1), Move(2, 3), DropFoodInstr(0), Turn("Left", 1)>>

\* a program whose second branch target lies past its end
Seek == <<Direction("Left", 1, 2), Turn("Left", 0)>>

ProgramInputs ==
    { [c \in Colors |-> IF c = "Red" THEN MoveLoop ELSE FoodLoop],
      [c \in {"Red"} |-> Patrol],
      [c \in {"Black"} |-> Forage],
      [c \in {"Red"} |-> Seek] }

\* the orders in which a HashMap over the colors cs may be iterated
Orders(cs) ==
    {o \in [1 .. Cardinality(cs) -> cs] : \A i, j \in DOMAIN o : i # j => o[i] # o[j]}

---------------------------------------------------------------------------
(* The state machine. *)

NoCall == [op |-> "none", ant |-> 0, res |-> "Ok"]

Init ==
    /\ grid \in GridInputs
    /\ ants = <<>>
    /\ swarms = World_swarms_new
    /\ pc = "setup"
    /\ last = NoCall
    /\ calls = 0
    /\ interpreters = <<>>
    /\ it = 0
    /\ queue = <<>>
    /\ trace = <<>>
    /\ renders = 0
    /\ ticks = 0
    /\ start = [ants |-> <<>>, grid |-> grid]

simVars == <<interpreters, it, queue, trace, renders, ticks, start>>

\* a call that ended in a panic ends the program
AfterCall(res) == IF res = "Panic" THEN "panicked" ELSE pc

\* world.add_ant(color, position)
AddAnt(color, position) ==
    /\ pc = "setup"
    /\ calls < MaxCalls
    /\ LET r == add_ant(ants, swarms, grid, color, position)
       IN  /\ ants' = r.ants
           /\ swarms' = r.swarms
           /\ grid' = r.grid
           /\ last' = [op |-> "add_ant", ant |-> r.id, res |-> r.res]
    /\ calls' = calls + 1
    /\ UNCHANGED <<pc, simVars>>

\* world.ant_mut(id).move_forward()
MoveForward(id) ==
    /\ pc = "setup"
    /\ calls < MaxCalls
    /\ LET r == move_forward(grid, ants[id + 1], id)
       IN  /\ grid' = r.grid
           /\ ants' = [ants EXCEPT ![id + 1] = r.data]
           /\ last' = [op |-> "move_forward", ant |-> id, res |-> r.res]
           /\ pc' = AfterCall(r.res)
    /\ calls' = calls + 1
    /\ UNCHANGED <<swarms, simVars>>

\* world.ant_mut(id).rotate(direction)
Rotate(id, direction) ==
    /\ pc = "setup"
    /\ calls < MaxCalls
    /\ ants' = [ants EXCEPT ![id + 1] = rotate(@, direction)]
    /\ last' = [op |-> "rotate", ant |-> id, res |-> "Ok"]
    /\ calls' = calls + 1
    /\ UNCHANGED <<grid, swarms, pc, simVars>>

\* world.ant_mut(id).pickup_food()
PickupFood(id) ==
    /\ pc = "setup"
    /\ calls < MaxCalls
    /\ LET r == pickup_food(grid, ants[id + 1])
       IN  /\ grid' = r.grid
           /\ ants' = [ants EXCEPT ![id + 1] = r.data]
           /\ last' = [op |-> "pickup_food", ant |-> id, res |-> r.res]
           /\ pc' = AfterCall(r.res)
    /\ calls' = calls + 1
    /\ UNCHANGED <<swarms, simVars>>

\* world.ant_mut(id).drop_food(), in a build with or without overflow checks
DropFood(id) ==
    /\ pc = "setup"
    /\ calls < MaxCalls
    /\ \E checks \in BOOLEAN :
         LET r == drop_food(grid, ants[id + 1], checks)
         IN  /\ grid' = r.grid
             /\ ants' = [ants EXCEPT ![id + 1] = r.data]
             /\ last' = [op |-> "drop_food", ant |-> id, res |-> r.res]
             /\ pc' = AfterCall(r.res)
    /\ calls' = calls + 1
    /\ UNCHANGED <<swarms, simVars>>

\* world.ant_mut(id).update_instr_pointer(new_pointer)
UpdateInstrPointer(id, new_pointer) ==
    /\ pc = "setup"
    /\ calls < MaxCalls
    /\ ants' = [ants EXCEPT ![id + 1] = update_instr_pointer(@, new_pointer)]
    /\ last' = [op |-> "update_instr_pointer", ant |-> id, res |-> "Ok"]
    /\ calls' = calls + 1
    /\ UNCHANGED <<grid, swarms, pc, simVars>>

\* Simulator::new(world, programs, renderer), made while a step() call is left
SimulatorNew(programs, order) ==
    /\ pc = "setup"
    /\ calls < MaxCalls
    /\ interpreters' = [i \in DOMAIN order |->
                           [program |-> programs[order[i]], color |-> order[i]]]
    /\ pc' = "idle"
    /\ last' = NoCall
    /\ start' = [ants |-> ants, grid |-> grid]
    /\ UNCHANGED <<grid, ants, swarms, calls, it, queue, trace, renders, ticks>>

\* step_brains visiting every ant of the world, whatever its color
step_brains_all_ants(w_ants, sw, color) == [i \in 1 .. Len(w_ants) |-> i - 1]

\* Interpreter::step_brains: let ant_ids: Vec<_> = world.swarm_ids(self.color).collect()
step_brains_ant_ids(w_ants, sw, color) == swarm_ids(sw, color)

\* Simulator::step, the for loop over the interpreters from index i on: the first
\* interpreter whose step_brains has an ant to visit, with its snapshot ant_ids.
\* (step_brains on an empty swarm changes nothing.)
RECURSIVE Enter(_, _, _, _)
Enter(its, w_ants, sw, i) ==
    IF i > Len(its) THEN [it |-> i, queue |-> <<>>]
    ELSE LET ant_ids_snapshot == step_brains_ant_ids(w_ants, sw, its[i].color)
         IN  IF ant_ids_snapshot = <<>> THEN Enter(its, w_ants, sw, i + 1)
             ELSE [it |-> i, queue |-> ant_ids_snapshot]

\* simulator.step() is called
Step ==
    /\ pc = "idle"
    /\ calls < MaxCalls
    /\ calls' = calls + 1
    /\ pc' = "brains"
    /\ LET e == Enter(interpreters, ants, swarms, 1)
       IN  it' = e.it /\ queue' = e.queue
    /\ trace' = <<>>
    /\ renders' = 0
    /\ UNCHANGED <<grid, ants, swarms, last, interpreters, ticks, start>>

\* Interpreter::step_brains, one iteration of its loop: the next ant of the
\* snapshot evaluates the instruction its instr_pointer names
StepAnt ==
    /\ pc = "brains"
    /\ queue # <<>>
    /\ LET ant_id == Head(queue)
           data == ants[ant_id + 1]
           program == interpreters[it].program
       IN  IF data.instr_pointer >= Len(program)
           THEN \* self.program[ant.instr_pointer()] is out of range
                /\ pc' = "panicked"
                /\ UNCHANGED <<grid, ants, it, queue, trace>>
           ELSE \E checks \in BOOLEAN :
                  LET instr == program[data.instr_pointer + 1]
                      e == Instr_eval(instr, ants, grid, ant_id)
                      r == perform(e.action, grid, data, ant_id, checks)
                      rest == Tail(queue)
                      nxt == IF rest # <<>> THEN [it |-> it, queue |-> rest]
                             ELSE Enter(interpreters, ants, swarms, it + 1)
                  IN  /\ grid' = r.grid
                      /\ trace' = Append(trace, [ant |-> ant_id, instr |-> instr,
                                                 before |-> data, action |-> e.action,
                                                 next |-> e.next, res |-> r.res])
                      /\ IF r.res = "Panic"
                         THEN /\ ants' = [ants EXCEPT ![ant_id + 1] = r.data]
                              /\ pc' = "panicked"
                              /\ UNCHANGED <<it, queue>>
                         ELSE /\ ants' = [ants EXCEPT ![ant_id + 1] =
                                             update_instr_pointer(r.data, e.next)]
                              /\ pc' = pc
                              /\ it' = nxt.it
                              /\ queue' = nxt.queue
    /\ UNCHANGED <<swarms, last, calls, interpreters, renders, ticks, start>>

\* Simulator::step rendering without waiting for the loop to end
Render_early ==
    /\ pc = "brains"
    /\ renders' = renders + 1
    /\ ticks' = ticks + 1
    /\ pc' = "idle"
    /\ UNCHANGED <<grid, ants, swarms, last, calls, interpreters, it, queue, trace, start>>

\* Simulator::step, after its loop: self.renderer.render(&self.world)
Render ==
    /\ pc = "brains"
    /\ queue = <<>>
    /\ renders' = renders + 1
    /\ ticks' = ticks + 1
    /\ pc' = "idle"
    /\ UNCHANGED <<grid, ants, swarms, last, calls, interpreters, it, queue, trace, start>>

Next ==
    \/ \E color \in Colors, position \in PositionInputs : AddAnt(color, position)
    \/ \E id \in ant_ids(ants) : MoveForward(id)
    \/ \E id \in ant_ids(ants), direction \in Directions : Rotate(id, direction)
    \/ \E id \in ant_ids(ants) : PickupFood(id)
    \/ \E id \in ant_ids(ants) : DropFood(id)
    \/ \E id \in ant_ids(ants), p \in PointerInputs : UpdateInstrPointer(id, p)
    \/ \E programs \in ProgramInputs :
          \E order \in Orders(DOMAIN programs) : SimulatorNew(programs, order)
    \/ Step
    \/ StepAnt
    \/ Render

Spec == Init /\ [][Next]_vars

---------------------------------------------------------------------------
(* Vocabulary of the properties below. *)

\* p names a cell of the grid
InGrid(p) == p.x \in 0 .. Width - 1 /\ p.y \in 0 .. Height - 1

\* the cell ahead of an ant record
Ahead(data) == translate(data.position, data.direction)

\* grids g and h agree everywhere but on the cells of ps
SameExceptAt(g, h, ps) == \A p \in Cells \ ps : g[p] = h[p]

\* ant sequences a and b agree on every ant but id
SameAntsExcept(a, b, id) ==
    /\ Len(a) = Len(b)
    /\ \A i \in 1 .. Len(a) : i # id + 1 => a[i] = b[i]

RECURSIVE SetSum(_, _)
SetSum(S, f) ==
    IF S = {} THEN 0
    ELSE LET p == CHOOSE q \in S : TRUE IN f[p] + SetSum(S \ {p}, f)

\* The food in play, (sum of the cells' food) + (ants carrying), as the pair
\* (high, low) with value high * 2^32 + low: high counts the cells whose u32
\* count is held as a negative i32, low adds the held values and the carriers.
FoodHigh(g) == Cardinality({p \in Cells : cell_food(g[p]) < 0})

FoodLow(g, as) ==
    SetSum(Cells, [p \in Cells |-> cell_food(g[p])])
        + Cardinality({i \in 1 .. Len(as) : as[i].carries_food})

\* a step() call has returned and no other has begun
StepDone == pc = "idle" /\ renders = 1

\* the entries of the current step()'s trace that ant id made
Evaluations(id) == {i \in 1 .. Len(trace) : trace[i].ant = id}

\* the colors that have an interpreter
ProgrammedColors == {interpreters[i].color : i \in 1 .. Len(interpreters)}

---------------------------------------------------------------------------
(* C1  Occupancy invariant: in every reachable state each cell has at most *)
(* one occupant, and for every ant the cell at its stored position is a    *)
(* FreeCell whose occupant is that ant, and no other cell names that ant.  *)
C1_Occupancy ==
    /\ \A p \in Cells : Cardinality(grid[p].ant_id) <= 1
    /\ \A id \in ant_ids(ants) :
          LET position == ants[id + 1].position
          IN  /\ InGrid(position)
              /\ grid[position].kind = "FreeCell"
              /\ grid[position].ant_id = {id}
              /\ \A p \in Cells \ {position} : id \notin grid[p].ant_id

\* two ants stand on the grid after a step() in which one of them moved
C1_Witness ==
    /\ StepDone
    /\ Len(ants) = 2
    /\ \E i \in 1 .. Len(trace) :
          /\ trace[i].action = SomeAction([kind |-> "Move"])
          /\ ants[trace[i].ant + 1].position # trace[i].before.position

(* C2  Food conservation: (sum of food over all cells) + (number of ants   *)
(* carrying food) never changes once the world is constructed, whatever    *)
(* calls and ticks follow.                                                 *)
C2_FoodConserved ==
    [][FoodHigh(grid') = FoodHigh(grid) /\ FoodLow(grid', ants') = FoodLow(grid, ants)]_vars

MovedAhead(id, g, h, a, b) ==
    LET from == a[id + 1].position
        to == Ahead(a[id + 1])
    IN  /\ InGrid(to)
        /\ h[from] = [g[from] EXCEPT !.ant_id = {}]
        /\ g[from].ant_id = {id}
        /\ h[to] = [g[to] EXCEPT !.ant_id = {id}]
        /\ g[to].ant_id = {}
        /\ SameExceptAt(g, h, {from, to})
        /\ b[id + 1] = [a[id + 1] EXCEPT !.position = to]

(* C3  Move atomicity: a move_forward call, made by the caller or by a     *)
(* Move instruction, either clears the occupant of the old cell, sets the  *)
(* occupant of the cell ahead to the ant and moves the ant's stored        *)
(* position there, changing nothing else of these two cells, of the other  *)
(* cells or of the ant, or else changes nothing at all.                    *)
C3_MoveAtomicity ==
    [][ /\ \A id \in ant_ids(ants) :
              MoveForward(id) =>
                  /\ SameAntsExcept(ants, ants', id)
                  /\ IF last'.res = "Ok"
                     THEN MovedAhead(id, grid, grid', ants, ants')
                     ELSE grid' = grid /\ ants' = ants
        /\ (StepAnt /\ Len(trace') > Len(trace)
                /\ trace'[Len(trace')].instr.op = "Move") =>
              LET e == trace'[Len(trace')]
                  moved == [i \in 1 .. Len(ants) |->
                               IF i = e.ant + 1
                               THEN [ants'[i] EXCEPT !.instr_pointer = e.before.instr_pointer]
                               ELSE ants'[i]]
              IN  /\ SameAntsExcept(ants, ants', e.ant)
                  /\ \/ MovedAhead(e.ant, grid, grid', ants, moved)
                     \/ grid' = grid /\ moved = ants
      ]_vars

\* the caller's move_forward has just moved an ant
C3_Witness ==
    /\ last.op = "move_forward"
    /\ last.res = "Ok"
    /\ grid[ants[last.ant + 1].position].ant_id = {last.ant}

(* C4  move_forward fails, leaving grid and ants unchanged, exactly when   *)
(* the cell ahead is out of bounds, a wall, or occupied, and the error     *)
(* names the cause: OutOfBounds outside the grid (never Wall), Wall on a   *)
(* wall cell, Occupied on a free cell holding an ant.                      *)
C4_MoveErrors ==
    [][ \A id \in ant_ids(ants) :
            MoveForward(id) =>
                LET to == Ahead(ants[id + 1])
                    res == last'.res
                IN  /\ res \in {"Ok", "OutOfBounds", "Wall", "Occupied"}
                    /\ res = "OutOfBounds" <=> ~InGrid(to)
                    /\ res = "Wall" <=> (InGrid(to) /\ grid[to].kind = "Wall")
                    /\ res = "Occupied" <=>
                          (InGrid(to) /\ grid[to].kind = "FreeCell" /\ grid[to].ant_id # {})
                    /\ res # "Ok" => (grid' = grid /\ ants' = ants /\ swarms' = swarms)
      ]_vars

\* an ant on an edge cell, facing outward, has just been refused with OutOfBounds
C4_Witness ==
    /\ last.op = "move_forward"
    /\ last.res = "OutOfBounds"
    /\ InGrid(ants[last.ant + 1].position)
    /\ ~InGrid(Ahead(ants[last.ant + 1]))

(* C5  add_ant(color, position) fails with OutOfBounds, Wall or Occupied   *)
(* when the position is outside the grid, a wall cell, or a cell holding   *)
(* an ant, and a failed add_ant leaves grid, ant list and both swarm lists *)
(* unchanged, so that the next add_ant is offered the same id.             *)
C5_AddAntErrors ==
    [][ \A color \in Colors, position \in PositionInputs :
            AddAnt(color, position) =>
                LET res == last'.res
                IN  /\ res \in {"Ok", "OutOfBounds", "Wall", "Occupied"}
                    /\ res = "OutOfBounds" <=> ~InGrid(position)
                    /\ res = "Wall" <=> (InGrid(position) /\ grid[position].kind = "Wall")
                    /\ res = "Occupied" <=>
                          (InGrid(position) /\ grid[position].kind = "FreeCell"
                              /\ grid[position].ant_id # {})
                    /\ res # "Ok" =>
                          /\ grid' = grid /\ ants' = ants /\ swarms' = swarms
                          /\ last'.ant = Len(ants')
      ]_vars

\* add_ant has just been refused on a cell that holds the one ant there is
C5_Witness ==
    /\ last.op = "add_ant"
    /\ last.res = "Occupied"
    /\ Len(ants) = 1
    /\ swarms[ants[1].color] = <<0>>

(* C6  A successful add_ant(color, position) returns the number of ants    *)
(* created before it, marks the cell at position as occupied by that id,   *)
(* appends the id to the end of the swarm list of that color only, and     *)
(* creates the ant facing Right with instr_pointer 0 and carries_food      *)
(* false; every swarm list is in strictly ascending id order.              *)
C6_AddAntOk ==
    /\ [](\A c \in Colors : \A i, j \in 1 .. Len(swarms[c]) :
              i < j => swarms[c][i] < swarms[c][j])
    /\ [][ \A color \in Colors, position \in PositionInputs :
              (AddAnt(color, position) /\ last'.res = "Ok") =>
                  LET id == last'.ant
                  IN  /\ id = Len(ants)
                      /\ grid' = [grid EXCEPT ![position].ant_id = {id}]
                      /\ swarms'[color] = Append(swarms[color], id)
                      /\ \A c \in Colors \ {color} : swarms'[c] = swarms[c]
                      /\ Len(ants') = Len(ants) + 1
                      /\ SameAntsExcept(ants, SubSeq(ants', 1, Len(ants)), Len(ants))
                      /\ ants'[id + 1] =
                            [color |-> color, position |-> position, direction |-> "Right",
                             instr_pointer |-> 0, carries_food |-> FALSE]
         ]_vars

\* a second ant of the same color has just been added
C6_Witness ==
    /\ last.op = "add_ant"
    /\ last.res = "Ok"
    /\ last.ant = 1
    /\ \E c \in Colors : swarms[c] = <<0, 1>>

(* C7  pickup_food returns AntCarriesFood if the ant already carries food  *)
(* (also when the cell has no food); otherwise CellHasNoFood if the food   *)
(* count of the ant's cell is zero; otherwise it takes exactly one unit    *)
(* from that cell and sets carries_food.  A failure changes neither the    *)
(* cell nor the ant, and a count of zero is never decremented.             *)
C7_Pickup ==
    [][ \A id \in ant_ids(ants) :
            PickupFood(id) =>
                LET data == ants[id + 1]
                    here == data.position
                    res == last'.res
                IN  /\ res = "AntCarriesFood" <=> data.carries_food
                    /\ res = "CellHasNoFood" <=> (~data.carries_food /\ grid[here].food = 0)
                    /\ res = "Ok" <=> (~data.carries_food /\ grid[here].food # 0)
                    /\ res = "Ok" =>
                          /\ grid' = [grid EXCEPT ![here].food = @ - 1]
                          /\ ants' = [ants EXCEPT ![id + 1].carries_food = TRUE]
                    /\ res # "Ok" => (grid' = grid /\ ants' = ants)
      ]_vars

\* pickup_food has just been refused with AntCarriesFood on a cell without food
C7_Witness ==
    /\ last.op = "pickup_food"
    /\ last.res = "AntCarriesFood"
    /\ grid[ants[last.ant + 1].position].food = 0
    /\ ants[last.ant + 1].carries_food

(* C8  drop_food returns AntHasNoFood and changes nothing if the ant       *)
(* carries no food; otherwise it always succeeds, clearing carries_food    *)
(* and adding exactly one to the food count of the ant's cell.  It never   *)
(* fails or aborts because of the cell the ant stands on.                  *)
C8_Drop ==
    [][ \A id \in ant_ids(ants) :
            DropFood(id) =>
                LET data == ants[id + 1]
                    here == data.position
                    res == last'.res
                IN  IF ~data.carries_food
                    THEN res = "AntHasNoFood" /\ grid' = grid /\ ants' = ants
                    ELSE /\ res = "Ok"
                         /\ ants' = [ants EXCEPT ![id + 1].carries_food = FALSE]
                         /\ grid' = [grid EXCEPT ![here].food = @ + 1]
                         /\ grid[here].food # U32Max
      ]_vars

(* C9  In every step() call every ant of every swarm evaluates exactly one *)
(* instruction.                                                            *)
C9_EveryAntOnce ==
    StepDone => \A id \in ant_ids(ants) : Cardinality(Evaluations(id)) = 1

(* C9 as amended: in every step() call that returns, every ant whose color *)
(* has a program in the map given to Simulator::new evaluates exactly one  *)
(* instruction and every other ant evaluates none; at no point of a step() *)
(* has an ant evaluated more than one.                                     *)
C9_ProgrammedAntsOnce ==
    /\ \A id \in ant_ids(ants) : Cardinality(Evaluations(id)) <= 1
    /\ StepDone =>
          \A id \in ant_ids(ants) :
              Cardinality(Evaluations(id)) =
                  IF ants[id + 1].color \in ProgrammedColors THEN 1 ELSE 0

\* a step() has returned in which two ants of different colors, each with a
\* program, ran
C9_Witness ==
    /\ StepDone
    /\ Len(ants) = 2
    /\ ants[1].color # ants[2].color
    /\ ProgrammedColors = Colors
    /\ Len(trace) = 2

BehindScenario(a, b) ==
    /\ Len(ants) = 2
    /\ a < b
    /\ \E i, j \in 1 .. Len(trace) :
          /\ trace[i].ant = a /\ trace[j].ant = b
          /\ trace[i].instr.op = "Move" /\ trace[j].instr.op = "Move"
          /\ trace[i].before.color = trace[j].before.color
          /\ trace[i].before.direction = trace[j].before.direction
          /\ trace[j].before.position = Ahead(trace[i].before)
          /\ InGrid(Ahead(trace[j].before))
          /\ grid[Ahead(trace[j].before)].kind = "FreeCell"

(* C10  Within one step() the ants of one color run one after the other in *)
(* ascending id order, each on the world the ants before it left.  So with *)
(* two same-color ants A (lower id) directly behind B, both facing the     *)
(* same way, both executing Move, the cell ahead of B free and no other    *)
(* ant in the world: after the tick A has failed and kept its position and *)
(* B has advanced one cell.                                                *)
C10_CreationOrder ==
    /\ \A i, j \in 1 .. Len(trace) :
          (i < j /\ trace[i].before.color = trace[j].before.color)
              => trace[i].ant < trace[j].ant
    /\ StepDone =>
          \A a, b \in ant_ids(ants) :
              BehindScenario(a, b) =>
                  \E i, j \in 1 .. Len(trace) :
                      /\ trace[i].ant = a /\ trace[j].ant = b
                      /\ i < j
                      /\ trace[i].action = NoAction
                      /\ trace[i].next = trace[i].instr.fail_instr
                      /\ ants[a + 1].position = trace[i].before.position
                      /\ trace[j].action = SomeAction([kind |-> "Move"])
                      /\ ants[b + 1].position = Ahead(trace[j].before)

\* a step() has returned in which A, behind B, stayed and B advanced
C10_Witness ==
    /\ StepDone
    /\ BehindScenario(0, 1)
    /\ ants[2].position = Pos(2, 0)
    /\ ants[1].position = Pos(0, 0)

\* in the current step(), entry i is a successful Move out of cell c, entry j a
\* later Move aimed at c, and no ant moved into c between the two
VacatedThenEntered(i, j, c) ==
    /\ i < j
    /\ trace[i].action = SomeAction([kind |-> "Move"])
    /\ trace[i].res = "Ok"
    /\ trace[i].before.position = c
    /\ trace[j].instr.op = "Move"
    /\ Ahead(trace[j].before) = c
    /\ \A k \in i + 1 .. j - 1 :
          ~(trace[k].action = SomeAction([kind |-> "Move"]) /\ Ahead(trace[k].before) = c)

(* C11  If within one tick ant A makes a successful Move out of cell c and *)
(* ant B, processed later in the same tick, executes Move with c as its    *)
(* target, and no other ant entered c in between, then B's Move succeeds:  *)
(* B takes its success branch and ends the tick in c.                      *)
C11_VacatedCell ==
    \A i, j \in 1 .. Len(trace) : \A c \in Cells :
        VacatedThenEntered(i, j, c) =>
            /\ trace[j].action = SomeAction([kind |-> "Move"])
            /\ trace[j].res = "Ok"
            /\ trace[j].next = trace[j].instr.success_instr
            /\ (pc \in {"brains", "idle"} =>
                  /\ ants[trace[j].ant + 1].position = c
                  /\ grid[c].ant_id = {trace[j].ant})

\* a step() has returned in which one ant left a cell and a later one took it
C11_Witness ==
    /\ StepDone
    /\ \E i, j \in 1 .. Len(trace) : \E c \in Cells :
          /\ VacatedThenEntered(i, j, c)
          /\ ants[trace[j].ant + 1].position = c
          /\ ants[trace[i].ant + 1].position = Ahead(trace[i].before)

\* ant id has evaluated its instruction of the current step() and its new
\* instr_pointer has been written back
Finished(id) ==
    /\ Cardinality(Evaluations(id)) = 1
    /\ \A i \in Evaluations(id) : ants[id + 1].instr_pointer = trace[i].next

(* C12  Each step() invokes the renderer exactly once, and only after      *)
(* every ant of every color with a program has finished its instruction of *)
(* the tick, the write-back of its instr_pointer included; the renderer    *)
(* never sees a world in which some ants of the tick have run and others   *)
(* have not, and rendering does not change the World.                      *)
C12_RenderOnce ==
    /\ [](/\ renders \in {0, 1}
          /\ pc = "brains" => renders = 0
          /\ (pc = "idle" /\ ticks > 0) => renders = 1)
    /\ [][ /\ (pc = "brains" /\ pc' = "idle") => renders' = renders + 1
           /\ renders' = renders + 1 =>
                 /\ \A id \in ant_ids(ants) :
                       ants[id + 1].color \in ProgrammedColors => Finished(id)
                 /\ \A i \in 1 .. Len(trace) : Finished(trace[i].ant)
                 /\ <<grid', ants', swarms'>> = <<grid, ants, swarms>>
      ]_vars

\* the second step() has returned, two ants having run in it
C12_Witness ==
    /\ StepDone
    /\ ticks = 2
    /\ Len(trace) = 2

\* step_brains is about to evaluate an instruction: the ant, its record and
\* the instruction its instr_pointer names
Evaluating ==
    /\ pc = "brains"
    /\ queue # <<>>
    /\ ants[Head(queue) + 1].instr_pointer < Len(interpreters[it].program)

CurrentAnt == Head(queue)

CurrentData == ants[CurrentAnt + 1]

CurrentInstr == interpreters[it].program[CurrentData.instr_pointer + 1]

\* the cell ahead of an ant record is in bounds, not a wall and not occupied
AheadIsFree(g, data) ==
    /\ InGrid(Ahead(data))
    /\ g[Ahead(data)].kind = "FreeCell"
    /\ g[Ahead(data)].ant_id = {}

(* C13  Move(success, fail): the ant's next instr_pointer is success       *)
(* exactly when the cell ahead, translate(position, direction), is in      *)
(* bounds, not a wall and not occupied, and then the ant ends the          *)
(* instruction one cell ahead; otherwise the next instr_pointer is fail    *)
(* and the ant's position and the grid are unchanged.  The branch taken    *)
(* agrees with whether the ant moved.                                      *)
C13_MoveInstr ==
    [][ (Evaluating /\ CurrentInstr.op = "Move") =>
            LET id == CurrentAnt
                data == CurrentData
                instr == CurrentInstr
                took == trace'[Len(trace')]
                moved == ants'[id + 1].position # data.position
            IN  /\ pc' = "brains"
                /\ SameAntsExcept(ants, ants', id)
                /\ took.ant = id /\ took.instr = instr
                /\ ants'[id + 1].instr_pointer = took.next
                /\ moved <=> took.next = instr.success_instr
                                /\ took.action = SomeAction([kind |-> "Move"])
                /\ IF AheadIsFree(grid, data)
                   THEN /\ took.next = instr.success_instr
                        /\ took.action = SomeAction([kind |-> "Move"])
                        /\ ants'[id + 1] = [data EXCEPT !.position = Ahead(data),
                                                        !.instr_pointer = instr.success_instr]
                        /\ MovedAhead(id, grid, grid', ants,
                                      [ants EXCEPT ![id + 1].position = Ahead(data)])
                   ELSE /\ took.next = instr.fail_instr
                        /\ took.action = NoAction
                        /\ ants'[id + 1] = [data EXCEPT !.instr_pointer = instr.fail_instr]
                        /\ grid' = grid
      ]_vars

\* a step() has returned in which one Move with two different branches failed
\* and another succeeded
C13_Witness ==
    /\ StepDone
    /\ \E i, j \in 1 .. Len(trace) :
          /\ trace[i].instr.op = "Move" /\ trace[j].instr.op = "Move"
          /\ trace[i].instr.success_instr # trace[i].instr.fail_instr
          /\ trace[i].action = NoAction
          /\ ants[trace[i].ant + 1].instr_pointer = trace[i].instr.fail_instr
          /\ ants[trace[i].ant + 1].position = trace[i].before.position
          /\ trace[j].instr.success_instr # trace[j].instr.fail_instr
          /\ trace[j].action = SomeAction([kind |-> "Move"])
          /\ ants[trace[j].ant + 1].instr_pointer = trace[j].instr.success_instr
          /\ ants[trace[j].ant + 1].position = Ahead(trace[j].before)

(* C14  DropFood(next): the ant's next instr_pointer is next in every      *)
(* case; an ant that carries food drops one unit on its cell, so that      *)
(* carries_food becomes false and the cell's food grows by one, and for an *)
(* ant that carries none the world is unchanged but for the instr_pointer. *)
C14_DropInstr ==
    [][ (Evaluating /\ CurrentInstr.op = "DropFood") =>
            LET id == CurrentAnt
                data == CurrentData
                here == data.position
                next_instr == CurrentInstr.next_instr
            IN  /\ pc' = "brains"
                /\ IF data.carries_food
                   THEN /\ ants' = [ants EXCEPT ![id + 1] =
                                       [data EXCEPT !.carries_food = FALSE,
                                                    !.instr_pointer = next_instr]]
                        /\ grid' = [grid EXCEPT ![here].food = @ + 1]
                        /\ grid[here].food # U32Max
                   ELSE /\ ants' = [ants EXCEPT ![id + 1].instr_pointer = next_instr]
                        /\ grid' = grid
      ]_vars

\* the ordinal one sixth-turn away from ordinal v: + 1 to the right, - 1 to the
\* left, modulo 6
SixthTurn(turn, v) == IF turn = "Left" THEN (v + 5) % 6 ELSE (v + 1) % 6

(* C15  For every starting direction and for each of Left and Right, the   *)
(* same turn applied 6 times gives the starting direction back and applied *)
(* 1 to 5 times never does.  A Turn instruction always succeeds, changes   *)
(* only the ant's direction, by one sixth-turn, and goes to next.          *)
C15_SixTurns ==
    /\ [](\A turn \in TurnDirections, d \in Directions :
             LET t1 == apply_to(turn, d)
                 t2 == apply_to(turn, t1)
                 t3 == apply_to(turn, t2)
                 t4 == apply_to(turn, t3)
                 t5 == apply_to(turn, t4)
                 t6 == apply_to(turn, t5)
             IN  /\ t6 = d
                 /\ d \notin {t1, t2, t3, t4, t5}
                 /\ DirToU32(t1) = SixthTurn(turn, DirToU32(d)))
    /\ [][ (Evaluating /\ CurrentInstr.op = "Turn") =>
               LET id == CurrentAnt
                   data == CurrentData
                   instr == CurrentInstr
                   after == ants'[id + 1]
               IN  /\ pc' = "brains"
                   /\ grid' = grid
                   /\ SameAntsExcept(ants, ants', id)
                   /\ after = [data EXCEPT !.direction = after.direction,
                                           !.instr_pointer = instr.next_instr]
                   /\ after.direction \in Directions
                   /\ DirToU32(after.direction) =
                          SixthTurn(instr.direction, DirToU32(data.direction))
      ]_vars

\* a step() has returned in which an ant that faced right turned left
C15_Witness ==
    /\ StepDone
    /\ \E i \in 1 .. Len(trace) :
          /\ trace[i].instr.op = "Turn"
          /\ trace[i].instr.direction = "Left"
          /\ trace[i].before.direction = "Right"
          /\ ants[trace[i].ant + 1].direction = "UpRight"
          /\ ants[trace[i].ant + 1].instr_pointer = trace[i].instr.next_instr

(* C16  In every reachable state no Wall cell holds an ant or food and no  *)
(* ant's stored position is a wall cell, and no operation (add_ant,        *)
(* move_forward, pickup_food, drop_food, step) turns a wall into a free    *)
(* cell or a free cell into a wall.                                        *)
C16_Walls ==
    /\ [](/\ \A p \in Cells :
                grid[p].kind = "Wall" =>
                    /\ grid[p] = Wall
                    /\ cell_ant(grid[p]) = {}
                    /\ cell_food(grid[p]) = 0
                    /\ ant_at(grid, p) = {}
          /\ \A id \in ant_ids(ants) :
                /\ InGrid(ants[id + 1].position)
                /\ grid[ants[id + 1].position].kind = "FreeCell")
    /\ [][\A p \in Cells : grid'[p].kind = grid[p].kind]_vars

\* a step() has returned in which an ant facing a wall tried to move into it
C16_Witness ==
    /\ StepDone
    /\ \E p \in Cells : grid[p].kind = "Wall"
    /\ \E id \in ant_ids(ants) :
          /\ InGrid(Ahead(ants[id + 1]))
          /\ grid[Ahead(ants[id + 1])].kind = "Wall"
          /\ \E i \in 1 .. Len(trace) :
                trace[i].ant = id /\ trace[i].instr.op = "Move" /\ trace[i].action = NoAction

\* the instr_pointers an instruction can name as the next one
Targets(instr) ==
    IF instr.op \in {"Turn", "DropFood"} THEN {instr.next_instr}
    ELSE {instr.success_instr, instr.fail_instr}

\* ant sequences that differ from as in the direction, in the load or in the
\* instr_pointer of one ant other than id
OtherAntsVaried(as, id) ==
    LET others == (1 .. Len(as)) \ {id + 1}
    IN  { [as EXCEPT ![j].direction = d] : j \in others, d \in Directions }
            \cup { [as EXCEPT ![j].carries_food = ~@] : j \in others }
            \cup { [as EXCEPT ![j].instr_pointer = @ + 1] : j \in others }

\* what one evaluation did to the world, told from the states before and after
\* it: the ant moved, turned, picked up or dropped
NumberOfMutations(data, after) ==
    Cardinality({k \in {"position", "direction", "carries_food"} : after[k] # data[k]})

OneEvaluation ==
    LET id == CurrentAnt
        data == CurrentData
        instr == CurrentInstr
        here == data.position
        after == ants'[id + 1]
        took == trace'[Len(trace')]
    IN  /\ pc' = "brains"
        /\ Len(trace') = Len(trace) + 1
        /\ took.next \in Targets(instr)
        /\ after.instr_pointer = took.next
        /\ NumberOfMutations(data, after) <= 1
        /\ after.position # data.position =>
              MovedAhead(id, grid, grid', ants, [ants EXCEPT ![id + 1].position = Ahead(data)])
        /\ after.direction # data.direction => grid' = grid
        /\ after.carries_food # data.carries_food =>
              grid' = [grid EXCEPT ![here].food = IF after.carries_food THEN @ - 1 ELSE @ + 1]
        /\ NumberOfMutations(data, after) = 0 => grid' = grid
        /\ \A as2 \in OtherAntsVaried(ants, id) :
              Instr_eval(instr, as2, grid, id) = Instr_eval(instr, ants, grid, id)
        /\ \A checks \in BOOLEAN :
              LET e == Instr_eval(instr, ants, grid, id)
                  r == perform(e.action, grid, data, id, checks)
              IN  r.res # "Panic" =>
                      /\ grid' = r.grid
                      /\ after = update_instr_pointer(r.data, e.next)

(* C17  Evaluating one instruction for one ant performs at most one        *)
(* world-mutating operation (a move, a rotation, a pickup or a drop) and   *)
(* yields exactly one next instr_pointer, and it is deterministic: the     *)
(* resulting state and the next instr_pointer are decided by the           *)
(* instruction, the ant's record and the grid.                             *)
C17_OneOperation == [][Evaluating => OneEvaluation]_vars

\* the cells an ant record may touch: its own and, if the grid has it, the
\* one ahead
OwnAndAhead(data) == {data.position} \cup ({Ahead(data)} \cap Cells)

\* grids that differ from g in one cell outside ps, which is made a wall or a
\* cell with food and some occupant
OtherCellsVaried(g, ps, occupant) ==
    { [g EXCEPT ![p] = c] : p \in Cells \ ps, c \in {Wall, FreeCell({occupant}, 1)} }

\* what the evaluation of instr by ant id gives on ants as and grid g: the
\* branch, the result, the ant's record and the cells it may touch
Outcome(instr, as, g, id, checks) ==
    LET e == Instr_eval(instr, as, g, id)
        r == perform(e.action, g, as[id + 1], id, checks)
    IN  [action |-> e.action, next |-> e.next, res |-> r.res, data |-> r.data,
         cells |-> [p \in OwnAndAhead(as[id + 1]) |-> r.grid[p]]]

(* C18  Executing one instruction for ant a leaves the record of every     *)
(* other ant unchanged and leaves unchanged every cell other than a's own  *)
(* cell and the cell immediately ahead of a; and its outcome depends on no *)
(* other cell and on no other ant's record.                                *)
C18_Frame ==
    [][ Evaluating =>
            LET id == CurrentAnt
                data == CurrentData
                instr == CurrentInstr
            IN  /\ SameAntsExcept(ants, ants', id)
                /\ SameExceptAt(grid, grid', OwnAndAhead(data))
                /\ swarms' = swarms
                /\ \A checks \in IF instr.op = "DropFood" THEN BOOLEAN ELSE {FALSE} :
                      LET here == Outcome(instr, ants, grid, id, checks)
                      IN  /\ \A as2 \in OtherAntsVaried(ants, id) :
                                Outcome(instr, as2, grid, id, checks) = here
                          /\ \A g2 \in OtherCellsVaried(grid, OwnAndAhead(data), Len(ants)) :
                                Outcome(instr, ants, g2, id, checks) = here
      ]_vars

\* a step() has returned in which one ant moved and another picked up food
C18_Witness ==
    /\ StepDone
    /\ \E i, j \in 1 .. Len(trace) :
          /\ trace[i].action = SomeAction([kind |-> "Move"])
          /\ ants[trace[i].ant + 1].position = Ahead(trace[i].before)
          /\ trace[j].action = SomeAction([kind |-> "PickUpFood"])
          /\ ants[trace[j].ant + 1].carries_food

\* the positions looked up: the grid and a ring of width 1 around it
Probes == {Pos(px, py) : px \in -1 .. Width, py \in -1 .. Height}

(* C19  cell_at and cell_at_mut return a cell exactly for the positions    *)
(* with 0 <= x < width and 0 <= y < height, and return None, not a Wall,   *)
(* for every other position, negative coordinates and x = width or         *)
(* y = height included; in_bounds is true for exactly the same positions.  *)
C19_Lookup ==
    \A p \in Probes :
        LET inside == 0 <= p.x /\ p.x < Width /\ 0 <= p.y /\ p.y < Height
        IN  /\ in_bounds(p) <=> inside
            /\ inside => cell_at(grid, p) = <<grid[p]>>
            /\ ~inside => cell_at(grid, p) = <<>> /\ cell_at(grid, p) # <<Wall>>

\* on a grid with a wall, an add_ant outside the grid was refused after one
\* inside had placed an ant
C19_Witness ==
    /\ \E p \in Cells : grid[p].kind = "Wall"
    /\ Len(ants) = 1
    /\ last.op = "add_ant"
    /\ last.res = "OutOfBounds"

\* the Simulator was given a World of one ant that carries nothing, has
\* instr_pointer 0 and stands on a cell with food, and for the ant's color the
\* program [PickUpFood{success: 1, fail: 0}, DropFood{next: 0}]
ScenarioB ==
    /\ pc # "setup"
    /\ Len(start.ants) = 1
    /\ ~start.ants[1].carries_food
    /\ start.ants[1].instr_pointer = 0
    /\ U32Positive(start.grid[start.ants[1].position].food)
    /\ \E i \in 1 .. Len(interpreters) :
          /\ interpreters[i].color = start.ants[1].color
          /\ interpreters[i].program = <<PickUpFood(1, 0), DropFoodInstr(0)>>

(* C20  One ant that carries nothing, with instr_pointer 0 on a cell with  *)
(* food n >= 1, running [PickUpFood{success: 1, fail: 0},                  *)
(* DropFood{next: 0}]: after every odd-numbered tick carries_food is true, *)
(* the cell's food is n - 1 and instr_pointer is 1; after every            *)
(* even-numbered tick carries_food is false, the cell's food is n and      *)
(* instr_pointer is 0.                                                     *)
C20_PickDropCycle ==
    ScenarioB =>
        LET n == start.grid[start.ants[1].position].food
            now == ants[1]
            food == grid[start.ants[1].position].food
        IN  /\ pc # "panicked"
            /\ Len(ants) = 1
            /\ pc = "idle" =>
                  IF ticks % 2 = 1
                  THEN now = [start.ants[1] EXCEPT !.carries_food = TRUE, !.instr_pointer = 1]
                       /\ food = n - 1
                  ELSE now = start.ants[1] /\ food = n

\* in the scenario the third tick has ended
C20_Witness ==
    /\ ScenarioB
    /\ pc = "idle"
    /\ ticks = 3
    /\ ants[1].carries_food

\* the Simulator was given a wall-free World of one ant that faces Right with
\* instr_pointer 0, and for the ant's color the program [Move{success: 0, fail: 0}]
ScenarioA ==
    /\ pc # "setup"
    /\ Len(start.ants) = 1
    /\ start.ants[1].direction = "Right"
    /\ start.ants[1].instr_pointer = 0
    /\ \A p \in Cells : start.grid[p].kind = "FreeCell"
    /\ \E i \in 1 .. Len(interpreters) :
          /\ interpreters[i].color = start.ants[1].color
          /\ interpreters[i].program = <<Move(0, 0)>>

Min(a, b) == IF a < b THEN a ELSE b

(* C21  A single ant facing Right at (x0, y) on a wall-free grid of width  *)
(* W, running [Move{success: 0, fail: 0}], stands on                       *)
(* (min(x0 + k, W - 1), y) after k ticks: it advances one cell per tick    *)
(* until x = W - 1, and every later Move fails and leaves it there.        *)
C21_WalkToTheEdge ==
    ScenarioA =>
        LET a == start.ants[1]
            x0 == a.position.x
        IN  /\ pc # "panicked"
            /\ Len(ants) = 1
            /\ pc = "idle" =>
                  /\ ants[1] = [a EXCEPT !.position =
                                   Pos(Min(x0 + ticks, Width - 1), a.position.y)]
                  /\ ticks >= 1 =>
                        /\ Len(trace) = 1
                        /\ trace[1].instr.op = "Move"
                        /\ trace[1].action = NoAction <=> x0 + ticks > Width - 1

\* in the scenario the ant started on x = 0 and the third tick has ended, its
\* Move having failed at the right edge
C21_Witness ==
    /\ ScenarioA
    /\ pc = "idle"
    /\ ticks = 3
    /\ start.ants[1].position.x = 0
    /\ ants[1].position.x = Width - 1
    /\ trace[1].action = NoAction

(* C22  Instr::Direction(direction, success, fail), the facing check, goes *)
(* to success exactly when the ant's current direction equals the given    *)
(* direction and to fail otherwise, and changes nothing in the world but   *)
(* the ant's instr_pointer.                                                *)
C22_FacingCheck ==
    [][ (Evaluating /\ CurrentInstr.op = "Direction") =>
            LET id == CurrentAnt
                data == CurrentData
                instr == CurrentInstr
                target == IF data.direction = instr.direction
                          THEN instr.success_instr ELSE instr.fail_instr
            IN  /\ pc' = "brains"
                /\ grid' = grid
                /\ swarms' = swarms
                /\ ants' = [ants EXCEPT ![id + 1].instr_pointer = target]
                /\ trace'[Len(trace')].action = NoAction
                /\ trace'[Len(trace')].next = target
      ]_vars

\* a step() has returned in which an ant facing Left passed a check for Left
\* whose two branches differ
C22_Witness ==
    /\ StepDone
    /\ \E i \in 1 .. Len(trace) :
          /\ trace[i].instr.op = "Direction"
          /\ trace[i].instr.success_instr # trace[i].instr.fail_instr
          /\ trace[i].before.direction = trace[i].instr.direction
          /\ ants[trace[i].ant + 1].instr_pointer = trace[i].instr.success_instr
          /\ ants[trace[i].ant + 1].direction = trace[i].before.direction

\* every branch target of every instruction of the program is an index of it
Closed(program) ==
    \A i \in 1 .. Len(program) : \A t \in Targets(program[i]) : t < Len(program)

\* the ants of a color in an ant sequence
AntsOf(as, color) == {id \in ant_ids(as) : as[id + 1].color = color}

\* every ant of the interpreter's color points into the interpreter's program
PointersInRange(as, interpreter) ==
    \A id \in AntsOf(as, interpreter.color) :
        as[id + 1].instr_pointer < Len(interpreter.program)

\* a lookup self.program[ant.instr_pointer()] past the end of the program
\* ends the step() in a panic and changes nothing
OutOfRangeLookupPanics ==
    [][ (/\ pc = "brains"
         /\ queue # <<>>
         /\ ants[Head(queue) + 1].instr_pointer >= Len(interpreters[it].program))
            => (pc' = "panicked" /\ <<grid', ants', swarms'>> = <<grid, ants, swarms>>)
      ]_vars

(* C23  The core does not check instr_pointer against the program length,  *)
(* but if every branch target of every instruction of a color's program is *)
(* smaller than the program's length, then in every reachable state every  *)
(* ant of that color has instr_pointer < program length; conversely an     *)
(* instr_pointer >= the length gives an out-of-range lookup.               *)
C23_PointerClosure ==
    /\ [](\A i \in 1 .. Len(interpreters) :
             Closed(interpreters[i].program) => PointersInRange(ants, interpreters[i]))
    /\ OutOfRangeLookupPanics

(* C23 as amended: if every branch target of a color's program is smaller  *)
(* than the program's length and every ant of that color has               *)
(* instr_pointer < program length when Simulator::new is called, then in   *)
(* every state reached afterwards every ant of that color has              *)
(* instr_pointer < program length; conversely an instr_pointer >= the      *)
(* length gives an out-of-range lookup.                                    *)
C23_PointerClosureFromStart ==
    /\ [](\A i \in 1 .. Len(interpreters) :
             (Closed(interpreters[i].program) /\ PointersInRange(start.ants, interpreters[i]))
                 => PointersInRange(ants, interpreters[i]))
    /\ OutOfRangeLookupPanics

\* the second step() has returned with a closed program whose ant started in
\* range and has left instruction 0
C23_Witness ==
    /\ StepDone
    /\ ticks = 2
    /\ \E i \in 1 .. Len(interpreters) :
          /\ Closed(interpreters[i].program)
          /\ PointersInRange(start.ants, interpreters[i])
          /\ \E id \in AntsOf(ants, interpreters[i].color) :
                ants[id + 1].instr_pointer > 0

\* the places of a swarm list that hold ant id
PlacesOf(list, id) == {i \in 1 .. Len(list) : list[i] = id}

(* C24  Swarm membership is fixed and partitions the ants: in every        *)
(* reachable state each ant id 0 .. n-1 appears exactly once across the    *)
(* swarm lists, in the list of its own color; an ant's color never         *)
(* changes; and only a successful add_ant changes the number of ants or a  *)
(* swarm list, by appending the new ant: move_forward, rotate,             *)
(* pickup_food, drop_food, update_instr_pointer and step() never add,      *)
(* remove or reorder ants or swarm entries.                                *)
C24_Swarms ==
    /\ [](/\ DOMAIN swarms = Colors
          /\ \A c \in Colors : \A i \in 1 .. Len(swarms[c]) : swarms[c][i] \in ant_ids(ants)
          /\ \A id \in ant_ids(ants) : \A c \in Colors :
                Cardinality(PlacesOf(swarms[c], id)) =
                    IF c = ants[id + 1].color THEN 1 ELSE 0)
    /\ [][ /\ Len(ants') >= Len(ants)
           /\ \A i \in 1 .. Len(ants) : ants'[i].color = ants[i].color
           /\ (Len(ants') # Len(ants) \/ swarms' # swarms) =>
                 /\ pc = "setup"
                 /\ last'.op = "add_ant" /\ last'.res = "Ok"
                 /\ Len(ants') = Len(ants) + 1
                 /\ last'.ant = Len(ants)
                 /\ swarms' = [swarms EXCEPT ![ants'[Len(ants')].color] = Append(@, Len(ants))]
           /\ (last'.op = "add_ant" /\ last'.res = "Ok" /\ last' # last) =>
                 Len(ants') = Len(ants) + 1
      ]_vars

\* a step() has returned on a world of three ants, not all of one color, in
\* which all three evaluated an instruction
C24_Witness ==
    /\ StepDone
    /\ Len(ants) = 3
    /\ \A c \in Colors : swarms[c] # <<>>
    /\ Len(trace) = 3

\* the direction three sixth-turns away from d
Opposite(d) == U32ToDir((DirToU32(d) + 3) % 6)

\* translating p by d and then by the opposite of d gives p back, neither
\* translation overflowing
RoundTrip(p, d) ==
    /\ ~translate_overflows(p, d)
    /\ ~translate_overflows(translate(p, d), Opposite(d))
    /\ translate(translate(p, d), Opposite(d)) = p

\* an ant that moves forward, turns three times the same way and moves forward
\* again is back on its cell, on the grid it left
ThereAndBack(g, data, id, turn) ==
    LET there == move_forward(g, data, id)
        turned == rotate(there.data,
                         apply_to(turn, apply_to(turn, apply_to(turn, data.direction))))
        back == move_forward(there.grid, turned, id)
    IN  there.res = "Ok" =>
            /\ turned.direction = Opposite(data.direction)
            /\ back.res = "Ok"
            /\ back.data.position = data.position
            /\ back.grid = g

\* the positions translated: the grid, the ring of width 1 around it, and the
\* four positions with one coordinate at a limit of i32
TranslateInputs ==
    Probes \cup {Pos(I32Max, 0), Pos(I32Min, 0), Pos(0, I32Max), Pos(0, I32Min)}

(* C25  Opposite directions are inverse translations: for every position p *)
(* and direction d, translating p by d and then by the direction three     *)
(* sixth-turns away from d returns p; so on an otherwise empty wall-free   *)
(* grid an ant that moves forward successfully, turns three times the same *)
(* way and moves forward again is back on its starting cell.               *)
C25_OppositeDirections ==
    /\ \A p \in TranslateInputs, d \in Directions : RoundTrip(p, d)
    /\ (Len(ants) = 1 /\ \A p \in Cells : grid[p].kind = "FreeCell") =>
          \A turn \in TurnDirections : ThereAndBack(grid, ants[1], 0, turn)

====
